---- MODULE Spec2Model ----
(***************************************************************************)
(* Record-storage core of abc-db-exe-engine: Page / Table / Database,      *)
(* DiskManager, TableScanOperator (the iterative Next() of user_input.cpp  *)
(* and the recursive Next() of tempCodeRunnerFile.cpp) and the             *)
(* ExecutionEngine drivers.                                                *)
(*                                                                         *)
(* Pages live on a heap of addresses 1..MaxPageId; a Table holds page      *)
(* addresses, a scan holds a borrowed page address.  Accesses the C++      *)
(* standard leaves undefined (a slot index outside the allocated array, a  *)
(* page that has been deleted, a second delete) are a choice between the   *)
(* outcomes a build can produce: the access behaves as on flat memory (a   *)
(* write past the array is kept and read back, a freed object still holds  *)
(* its old fields), it yields a garbage value, or the process aborts.      *)
(***************************************************************************)
EXTENDS Integers, Sequences, FiniteSets, TLC

VARIABLES
    tables,     \* Database::tables: name -> Table (bound = the key is present)
    heap,       \* address -> Page object (live = allocated and not yet deleted)
    scan,       \* the TableScanOperator instance, if one is constructed
    last,       \* the operation that ran last, what it reported and printed
    crashed,    \* the process has aborted (uncaught exception or memory fault)
    inserted,   \* history: payloads insertInto has stored, per table, in order
    nscans      \* history: scans constructed so far

vars == <<tables, heap, scan, last, crashed, inserted, nscans>>

----------------------------------------------------------------------------
\* Bounds of the model.
MaxInserts  == 2    \* successful insertInto calls in a run
MaxScans    == 2    \* scans constructed in a run
MaxNext     == 2    \* Next() calls made by hand on one scan
MaxPageId   == 2    \* heap addresses available to Page objects
MaxCapacity == 1    \* largest recordsPerPage passed to createTable

Names      == {"T", "U"}
\* The code never looks into a payload, so the k-th payload stored in a run
\* is given the k-th of these names: every payload of a run is distinct and a
\* lost, repeated or reordered record shows.
PayloadNames == <<"A", "B", "C", "D">>
Payloads   == {PayloadNames[k] : k \in 1 .. Len(PayloadNames)}
Capacities == -1 .. MaxCapacity
Variants   == {"iter", "rec"}   \* user_input.cpp / tempCodeRunnerFile.cpp Next()

PageIds == 1 .. MaxPageId
NoPage  == 0            \* Page* nullptr
NULLREC == "nullptr"    \* char* nullptr: an unfilled slot, and end-of-stream
GARBAGE == "garbage"    \* a non-null char* that is no stored payload
NoTable == "none"       \* Table* nullptr

Last(s) == s[Len(s)]

----------------------------------------------------------------------------
\* Page::Page(int numRecords): the count member is initialised from the
\* constructor argument, and every slot of the new array is nullptr.
Page(numRecords) ==
    [used       |-> TRUE,
     live       |-> TRUE,
     cap        |-> numRecords,
     numRecords |-> numRecords,
     records    |-> [i \in 1 .. numRecords |-> NULLREC]]

\* An address that holds no Page object yet.
NoObject == [used |-> FALSE, live |-> FALSE, cap |-> 0, numRecords |-> 0, records |-> <<>>]

\* Table::Table(tableName, recordsPerPage): no pages, capacity as given.
Table(recordsPerPage) ==
    [bound |-> TRUE, numRecordsPerPage |-> recordsPerPage, pages |-> <<>>]

Unbound == [bound |-> FALSE, numRecordsPerPage |-> 0, pages |-> <<>>]

\* Addresses operator new may return for a Page: a deleted page's address
\* (reuse), or the lowest address never handed out.
Fresh(h) == {p \in PageIds : ~h[p].used}
AllocIds(h) ==
    {p \in PageIds : h[p].used /\ ~h[p].live}
      \cup (IF Fresh(h) = {} THEN {}
            ELSE {CHOOSE p \in Fresh(h) : \A q \in Fresh(h) : p <= q})

\* page->numRecords read through a Page*: the member of a live page; through
\* a dangling pointer the stale member, or a fault.
ReadNumRecords(h, p) ==
    IF h[p].live THEN {[ok |-> TRUE, v |-> h[p].numRecords]}
    ELSE {[ok |-> TRUE, v |-> h[p].numRecords], [ok |-> FALSE, v |-> 0]}

\* page->records[i] read: a slot of the array of a live page; past the array
\* or through a dangling pointer whatever flat memory holds there, a garbage
\* pointer, or a fault.
ReadRecord(h, p, i) ==
    LET pg   == h[p]
        flat == IF i < Len(pg.records) THEN {pg.records[i + 1]} ELSE {}
    IN  IF pg.live /\ i < pg.cap
        THEN {[ok |-> TRUE, v |-> pg.records[i + 1]]}
        ELSE {[ok |-> TRUE, v |-> x] : x \in flat \cup {GARBAGE}}
               \cup {[ok |-> FALSE, v |-> NULLREC]}

\* records[i] = payload as flat memory keeps it (slots between the end of
\* what was written so far and i hold garbage).
Put(recs, i, record) ==
    [k \in 1 .. (IF i + 1 > Len(recs) THEN i + 1 ELSE Len(recs)) |->
        IF k = i + 1 THEN record
        ELSE IF k <= Len(recs) THEN recs[k] ELSE GARBAGE]

\* delete page: ~Page() runs delete[] records[i] for i < numRecords and
\* frees the array.  Reading slots past the array, or deleting a page twice,
\* may abort.
DeletePage(h, p) ==
    LET freed == [ok |-> TRUE, heap |-> [h EXCEPT ![p].live = FALSE]]
        fault == [ok |-> FALSE, heap |-> h]
    IN  IF h[p].live
        THEN IF h[p].numRecords > h[p].cap THEN {freed, fault} ELSE {freed}
        ELSE {[ok |-> TRUE, heap |-> h], fault}

----------------------------------------------------------------------------
\* Table::addPage: pages.push_back(new Page(numRecordsPerPage)).  A negative
\* array length makes new[] throw, which nothing catches.
addPage(t, h) ==
    IF t.numRecordsPerPage < 0
    THEN {[crash |-> TRUE, table |-> t, heap |-> h]}
    ELSE {[crash |-> FALSE,
           table |-> [t EXCEPT !.pages = Append(@, p)],
           heap  |-> [h EXCEPT ![p] = Page(t.numRecordsPerPage)]]
            : p \in AllocIds(h)}

\* The tail of Table::addRecord: recordIndex = lastPage->numRecords++ and the
\* copy of the payload into records[recordIndex].
storeRecord(t, h, record) ==
    LET p   == Last(t.pages)
        pg  == h[p]
        idx == pg.numRecords
        kept == [crash |-> FALSE, table |-> t,
                 heap  |-> [h EXCEPT ![p].numRecords = idx + 1,
                                     ![p].records = Put(pg.records, idx, record)]]
    IN  {kept} \cup (IF ~pg.live \/ idx >= pg.cap
                     THEN {[crash |-> TRUE, table |-> t, heap |-> h]}
                     ELSE {})

\* Table::addRecord(record): the set of outcomes.
addRecord(t, h, record) ==
    LET full == IF t.pages = <<>> THEN {[ok |-> TRUE, v |-> TRUE]}
                ELSE {[ok |-> r.ok, v |-> (r.v = t.numRecordsPerPage)]
                        : r \in ReadNumRecords(h, Last(t.pages))}
        grown == UNION {IF ~f.ok THEN {[crash |-> TRUE, table |-> t, heap |-> h]}
                        ELSE IF f.v THEN addPage(t, h)
                        ELSE {[crash |-> FALSE, table |-> t, heap |-> h]}
                          : f \in full}
    IN  UNION {IF g.crash THEN {g} ELSE storeRecord(g.table, g.heap, record)
                 : g \in grown}

\* getTable as a lookup that ignores its key and returns the first table of
\* the catalog.
getTableFirst(name) ==
    IF \E n \in Names : tables[n].bound
    THEN CHOOSE n \in Names : tables[n].bound
    ELSE NoTable

\* Database::getTable(name): the table's address (its name stands for it).
getTable(name) == IF tables[name].bound THEN name ELSE NoTable

\* pageNum < table->pages.size() compares an int with a size_t: the int is
\* converted to size_t first, which turns a negative pageNum into a value
\* above every vector size, so the comparison is false for it.
LessThanSize(pageNum, size) == pageNum >= 0 /\ pageNum < size

\* getPage with the bound taken one short: the last page is never returned.
getPageShort(t, pageNum) ==
    IF LessThanSize(pageNum, Len(t.pages) - 1) THEN t.pages[pageNum + 1]
    ELSE NoPage

\* DiskManager::getPage(table, pageNum).
getPage(t, pageNum) ==
    IF LessThanSize(pageNum, Len(t.pages)) THEN t.pages[pageNum + 1] ELSE NoPage

----------------------------------------------------------------------------
\* The cursor of a TableScanOperator.
Cursor(t) ==
    [currentRecordIndex |-> 0, currentPageNum |-> 0, currentPage |-> getPage(t, 0)]

Fault(c, h) == [crash |-> TRUE, cursor |-> c, heap |-> h, ret |-> NULLREC]

\* return currentPage->records[currentRecordIndex++]
readOut(c, h) ==
    {IF r.ok
     THEN [crash |-> FALSE, heap |-> h, ret |-> r.v,
           cursor |-> [c EXCEPT !.currentRecordIndex = @ + 1]]
     ELSE Fault(c, h)
       : r \in ReadRecord(h, c.currentPage, c.currentRecordIndex)}

\* TableScanOperator::Next() of user_input.cpp (explicit loop): the set of
\* outcomes of one call, started with cursor c on table t and heap h.
RECURSIVE NextIter(_, _, _)
NextIter(c, t, h) ==
    LET n    == c.currentPageNum + 1
        dels == IF c.currentPage # NoPage THEN DeletePage(h, c.currentPage)
                ELSE {[ok |-> TRUE, heap |-> h]}
        advance ==
            UNION {IF ~d.ok THEN {Fault(c, h)}
                   ELSE IF getPage(t, n) = NoPage
                   THEN {[crash |-> FALSE, heap |-> d.heap, ret |-> NULLREC,
                          cursor |-> [c EXCEPT !.currentPageNum = n,
                                               !.currentPage = NoPage]]}
                   ELSE NextIter([currentRecordIndex |-> 0, currentPageNum |-> n,
                                  currentPage |-> getPage(t, n)], t, d.heap)
                     : d \in dels}
    IN  IF c.currentPage = NoPage THEN advance
        ELSE UNION {IF ~r.ok THEN {Fault(c, h)}
                    ELSE IF c.currentRecordIndex >= r.v THEN advance
                    ELSE readOut(c, h)
                      : r \in ReadNumRecords(h, c.currentPage)}

\* The recursive Next() with <= for < in its test of the record index: one
\* slot past the page's count is read before the page is left.
RECURSIVE NextRecOneMore(_, _, _)
NextRecOneMore(c, t, h) ==
    LET n == c.currentPageNum + 1
        advance ==
            UNION {IF ~d.ok THEN {Fault(c, h)}
                   ELSE IF getPage(t, n) = NoPage
                   THEN {[crash |-> FALSE, heap |-> d.heap, ret |-> NULLREC,
                          cursor |-> [c EXCEPT !.currentPageNum = n,
                                               !.currentPage = NoPage]]}
                   ELSE NextRecOneMore([currentRecordIndex |-> 0,
                                        currentPageNum |-> n,
                                        currentPage |-> getPage(t, n)], t, d.heap)
                     : d \in DeletePage(h, c.currentPage)}
    IN  IF c.currentPage = NoPage
        THEN {[crash |-> FALSE, heap |-> h, ret |-> NULLREC, cursor |-> c]}
        ELSE UNION {IF ~r.ok THEN {Fault(c, h)}
                    ELSE IF c.currentRecordIndex <= r.v THEN readOut(c, h)
                    ELSE advance
                      : r \in ReadNumRecords(h, c.currentPage)}

\* TableScanOperator::Next() of tempCodeRunnerFile.cpp (recursive).
RECURSIVE NextRec(_, _, _)
NextRec(c, t, h) ==
    LET n == c.currentPageNum + 1
        advance ==
            UNION {IF ~d.ok THEN {Fault(c, h)}
                   ELSE IF getPage(t, n) = NoPage
                   THEN {[crash |-> FALSE, heap |-> d.heap, ret |-> NULLREC,
                          cursor |-> [c EXCEPT !.currentPageNum = n,
                                               !.currentPage = NoPage]]}
                   ELSE NextRec([currentRecordIndex |-> 0, currentPageNum |-> n,
                                 currentPage |-> getPage(t, n)], t, d.heap)
                     : d \in DeletePage(h, c.currentPage)}
    IN  IF c.currentPage = NoPage
        THEN {[crash |-> FALSE, heap |-> h, ret |-> NULLREC, cursor |-> c]}
        ELSE UNION {IF ~r.ok THEN {Fault(c, h)}
                    ELSE IF c.currentRecordIndex < r.v THEN readOut(c, h)
                    ELSE advance
                      : r \in ReadNumRecords(h, c.currentPage)}

----------------------------------------------------------------------------
NoScan ==
    [open |-> FALSE, req |-> NoTable, table |-> NoTable, variant |-> "iter",
     mode |-> "manual", cursor |-> [currentRecordIndex |-> 0,
     currentPageNum |-> 0, currentPage |-> NoPage],
     rets |-> <<>>, dirty |-> FALSE]

\* TableScanOperator::TableScanOperator on the table getTable(name) returned.
\* req, rets and dirty are history: the name asked for, what each Next()
\* returned, and whether an insert reached the table since construction.
NewScan(name, variant, mode) ==
    LET tbl == getTable(name) IN
    [open |-> TRUE, req |-> name, table |-> tbl, variant |-> variant,
     mode |-> mode, cursor |-> Cursor(tables[tbl]),
     rets |-> <<>>, dirty |-> FALSE]

\* One Next() call on the constructed scan: its outcomes.
Next(s) ==
    IF s.variant = "iter" THEN NextIter(s.cursor, tables[s.table], heap)
    ELSE NextRec(s.cursor, tables[s.table], heap)

\* What an operation leaves behind for its caller: the status it reported
\* and, for a driver, the records it has printed so far.
Report(op, name, status, out) ==
    [op |-> op, name |-> name, status |-> status, out |-> out]

Init ==
    /\ tables = [n \in Names |-> Unbound]
    /\ heap = [p \in PageIds |-> NoObject]
    /\ scan = NoScan
    /\ last = Report("init", NoTable, "ok", <<>>)
    /\ crashed = FALSE
    /\ inserted = [n \in Names |-> <<>>]
    /\ nscans = 0

\* The program runs until it aborts or main has destroyed the catalog.
Running == ~crashed /\ last.op # "~Database"

\* The engine is single-threaded: while a driver loop runs nothing else does.
Idle == Running /\ ~(scan.open /\ scan.mode # "manual")

\* createTable without the lookup of lines 74-77: the name is rebound.
createTableRebind(name, recordsPerPage) ==
    /\ Idle
    /\ tables' = [tables EXCEPT ![name] = Table(recordsPerPage)]
    /\ last' = Report("createTable", name, "ok", <<>>)
    /\ UNCHANGED <<heap, scan, crashed, inserted, nscans>>

\* Database::createTable(name, recordsPerPage)
createTable(name, recordsPerPage) ==
    /\ Idle
    /\ IF tables[name].bound
       THEN /\ last' = Report("createTable", name, "AlreadyExists", <<>>)
            /\ UNCHANGED tables
       ELSE /\ tables' = [tables EXCEPT ![name] = Table(recordsPerPage)]
            /\ last' = Report("createTable", name, "ok", <<>>)
    /\ UNCHANGED <<heap, scan, crashed, inserted, nscans>>

\* Payloads stored so far, over all tables.
RECURSIVE Sum(_, _)
Sum(f, S) == IF S = {} THEN 0
             ELSE LET x == CHOOSE y \in S : TRUE IN Len(f[x]) + Sum(f, S \ {x})
Inserts == Sum(inserted, Names)
NextPayload == PayloadNames[Inserts + 1]

\* insertInto that looks the table up with tables[tableName], which binds
\* an unbound name to a new table.
insertIntoAutoCreate(tableName, record) ==
    /\ Idle
    /\ Inserts < MaxInserts
    /\ \E o \in addRecord(IF tables[tableName].bound THEN tables[tableName]
                           ELSE Table(1), heap, record) :
         /\ ~o.crash
         /\ tables' = [tables EXCEPT ![tableName] = o.table]
         /\ heap' = o.heap
         /\ inserted' = [inserted EXCEPT ![tableName] = Append(@, record)]
         /\ last' = Report("insertInto", tableName, "ok", <<>>)
    /\ UNCHANGED <<scan, crashed, nscans>>

\* Database::insertInto(tableName, record)
insertInto(tableName, record) ==
    /\ Idle
    /\ IF ~tables[tableName].bound
       THEN /\ last' = Report("insertInto", tableName, "NotFound", <<>>)
            /\ UNCHANGED <<tables, heap, scan, crashed, inserted>>
       ELSE /\ Inserts < MaxInserts
            /\ \E o \in addRecord(tables[tableName], heap, record) :
                 IF o.crash
                 THEN /\ crashed' = TRUE
                      /\ last' = Report("insertInto", tableName, "abort", <<>>)
                      /\ UNCHANGED <<tables, heap, scan, inserted>>
                 ELSE /\ tables' = [tables EXCEPT ![tableName] = o.table]
                      /\ heap' = o.heap
                      /\ inserted' = [inserted EXCEPT ![tableName] = Append(@, record)]
                      /\ scan' = IF scan.open /\ scan.table = tableName
                                 THEN [scan EXCEPT !.dirty = TRUE] ELSE scan
                      /\ last' = Report("insertInto", tableName, "ok", <<>>)
                      /\ UNCHANGED crashed
    /\ UNCHANGED nscans

\* A caller constructs a scan as main of tempCodeRunnerFile.cpp does:
\* getTable, and only when the table exists a DiskManager and a
\* TableScanOperator on it (of either file).
scanTable(name, variant) ==
    /\ Running
    /\ ~scan.open
    /\ nscans < MaxScans
    /\ getTable(name) # NoTable
    /\ scan' = NewScan(name, variant, "manual")
    /\ nscans' = nscans + 1
    /\ last' = Report("scanTable", name, "ok", <<>>)
    /\ UNCHANGED <<tables, heap, crashed, inserted>>

\* A Next() call made directly on the scan.
ScanNext ==
    /\ Running
    /\ scan.open /\ scan.mode = "manual"
    /\ Len(scan.rets) < MaxNext
    /\ \E o \in Next(scan) :
         IF o.crash
         THEN /\ crashed' = TRUE
              /\ last' = Report("Next", scan.req, "abort", <<>>)
              /\ UNCHANGED <<heap, scan>>
         ELSE /\ heap' = o.heap
              /\ scan' = [scan EXCEPT !.cursor = o.cursor,
                                      !.rets = Append(@, o.ret)]
              /\ last' = Report("Next", scan.req, "ok", <<>>)
              /\ UNCHANGED crashed
    /\ UNCHANGED <<tables, inserted, nscans>>

\* The outcomes of TableScanOperator::~TableScanOperator with cursor c.
Destroy(c, h) ==
    IF c.currentPage # NoPage THEN DeletePage(h, c.currentPage)
    ELSE {[ok |-> TRUE, heap |-> h]}

\* The scan goes out of scope.
ScanDestroy ==
    /\ Running
    /\ scan.open /\ scan.mode = "manual"
    /\ \E d \in Destroy(scan.cursor, heap) :
         IF d.ok
         THEN /\ heap' = d.heap
              /\ scan' = NoScan
              /\ last' = Report("~TableScanOperator", scan.req, "ok", <<>>)
              /\ UNCHANGED crashed
         ELSE /\ crashed' = TRUE
              /\ last' = Report("~TableScanOperator", scan.req, "abort", <<>>)
              /\ UNCHANGED <<heap, scan>>
    /\ UNCHANGED <<tables, inserted, nscans>>

\* ExecutionEngine::execute() of tempCodeRunnerFile.cpp, entered on the
\* constructed scan of that file ...
execute ==
    /\ Running
    /\ scan.open /\ scan.mode = "manual" /\ scan.variant = "rec"
    /\ Len(scan.rets) < MaxNext
    /\ scan' = [scan EXCEPT !.mode = "execute"]
    /\ last' = Report("execute", scan.req, "running", <<>>)
    /\ UNCHANGED <<tables, heap, crashed, inserted, nscans>>

\* ... and one turn of its loop: Next(), then print the record, or return
\* at nullptr.
executeLoop ==
    /\ Running
    /\ scan.open /\ scan.mode = "execute"
    /\ \E o \in Next(scan) :
         IF o.crash
         THEN /\ crashed' = TRUE
              /\ last' = [last EXCEPT !.status = "abort"]
              /\ UNCHANGED <<heap, scan>>
         ELSE /\ heap' = o.heap
              /\ scan' = [scan EXCEPT !.cursor = o.cursor,
                                      !.rets = Append(@, o.ret),
                                      !.mode = IF o.ret = NULLREC THEN "manual"
                                               ELSE "execute"]
              /\ last' = IF o.ret = NULLREC THEN [last EXCEPT !.status = "done"]
                         ELSE [last EXCEPT !.out = Append(@, o.ret)]
              /\ UNCHANGED crashed
    /\ UNCHANGED <<tables, inserted, nscans>>

\* executeSelect without the test of lines 181-184: the scan is constructed
\* on whatever getTable returned, and a null table faults in getPage.
executeSelectNoCheck(tableName) ==
    /\ Running
    /\ ~scan.open
    /\ nscans < MaxScans
    /\ IF getTable(tableName) = NoTable
       THEN /\ crashed' = TRUE
            /\ last' = Report("executeSelect", tableName, "abort", <<>>)
            /\ UNCHANGED <<scan, nscans>>
       ELSE /\ scan' = NewScan(tableName, "iter", "select")
            /\ nscans' = nscans + 1
            /\ last' = Report("executeSelect", tableName, "running", <<>>)
            /\ UNCHANGED crashed
    /\ UNCHANGED <<tables, heap, inserted>>

\* ExecutionEngine::executeSelect(tableName) of user_input.cpp up to the
\* construction of its scan ...
executeSelect(tableName) ==
    /\ Running
    /\ ~scan.open
    /\ nscans < MaxScans
    /\ IF getTable(tableName) = NoTable
       THEN /\ last' = Report("executeSelect", tableName, "NotFound", <<>>)
            /\ UNCHANGED <<scan, nscans>>
       ELSE /\ scan' = NewScan(tableName, "iter", "select")
            /\ nscans' = nscans + 1
            /\ last' = Report("executeSelect", tableName, "running", <<>>)
    /\ UNCHANGED <<tables, heap, crashed, inserted>>

\* ... and one turn of its loop; at nullptr the function returns and the
\* scan, a local, is destroyed.
executeSelectLoop ==
    /\ Running
    /\ scan.open /\ scan.mode = "select"
    /\ \E o \in Next(scan) :
         IF o.crash
         THEN /\ crashed' = TRUE
              /\ last' = [last EXCEPT !.status = "abort"]
              /\ UNCHANGED <<heap, scan>>
         ELSE IF o.ret # NULLREC
         THEN /\ heap' = o.heap
              /\ scan' = [scan EXCEPT !.cursor = o.cursor,
                                      !.rets = Append(@, o.ret)]
              /\ last' = [last EXCEPT !.out = Append(@, o.ret)]
              /\ UNCHANGED crashed
         ELSE \E d \in Destroy(o.cursor, o.heap) :
                IF d.ok
                THEN /\ heap' = d.heap
                     /\ scan' = NoScan
                     /\ last' = [last EXCEPT !.status = "done"]
                     /\ UNCHANGED crashed
                ELSE /\ crashed' = TRUE
                     /\ last' = [last EXCEPT !.status = "abort"]
                     /\ UNCHANGED <<heap, scan>>
    /\ UNCHANGED <<tables, inserted, nscans>>

\* Table::~Table(): delete page for every page of pages, first to last.
RECURSIVE DestroyTable(_, _)
DestroyTable(pages, h) ==
    IF pages = <<>> THEN {[ok |-> TRUE, heap |-> h]}
    ELSE UNION {IF d.ok THEN DestroyTable(Tail(pages), d.heap) ELSE {d}
                  : d \in DeletePage(h, Head(pages))}

\* Database::~Database(): delete pair.second for every table of the map, in
\* whatever order the unordered_map iterates them.
RECURSIVE DestroyTables(_, _)
DestroyTables(names, h) ==
    IF names = {} THEN {[ok |-> TRUE, heap |-> h]}
    ELSE UNION {UNION {IF d.ok THEN DestroyTables(names \ {n}, d.heap) ELSE {d}
                         : d \in DestroyTable(tables[n].pages, h)}
                  : n \in names}

\* main returns: db, declared first, is destroyed last, after every scan.
DatabaseDestroy ==
    /\ Idle
    /\ ~scan.open
    /\ \E d \in DestroyTables({n \in Names : tables[n].bound}, heap) :
         IF d.ok
         THEN /\ heap' = d.heap
              /\ tables' = [n \in Names |-> Unbound]
              /\ inserted' = [n \in Names |-> <<>>]
              /\ last' = Report("~Database", NoTable, "ok", <<>>)
              /\ UNCHANGED crashed
         ELSE /\ crashed' = TRUE
              /\ last' = Report("~Database", NoTable, "abort", <<>>)
              /\ UNCHANGED <<heap, tables, inserted>>
    /\ UNCHANGED <<scan, nscans>>

Step ==
    \/ \E n \in Names, c \in Capacities : createTable(n, c)
    \/ \E n \in Names : insertInto(n, NextPayload)
    \/ \E n \in Names, v \in Variants : scanTable(n, v)
    \/ ScanNext
    \/ ScanDestroy
    \/ execute
    \/ executeLoop
    \/ \E n \in Names : executeSelect(n)
    \/ executeSelectLoop
    \/ DatabaseDestroy

Spec == Init /\ [][Step]_vars

----------------------------------------------------------------------------
\* Properties.

Bound(n) == tables[n].bound
Capacity(n) == tables[n].numRecordsPerPage
Ended(rets) == \E i \in 1 .. Len(rets) : rets[i] = NULLREC
\* The records a scan has produced before its first end-of-stream.
RECURSIVE Yielded(_)
Yielded(rets) ==
    IF rets = <<>> \/ Head(rets) = NULLREC THEN <<>>
    ELSE <<Head(rets)>> \o Yielded(Tail(rets))
\* Pages the table n should have for its N stored records.
CeilDiv(N, C) == (N + C - 1) \div C

\* C1: for every capacity C >= 1, a scan started after the inserts and run
\* to its first end-of-stream has yielded exactly the inserted payloads, in
\* insertion order.
C1_ScanYieldsInserted ==
    (scan.open /\ ~scan.dirty /\ Capacity(scan.table) >= 1 /\ Ended(scan.rets))
        => Yielded(scan.rets) = inserted[scan.table]

\* C2: after N inserts into a table of capacity C >= 1 the table has
\* ceil(N / C) pages, every page but the last holds C records and the last
\* holds N - C * (pages - 1).
C2_PageLayout ==
    \A n \in Names :
        (Bound(n) /\ Capacity(n) >= 1) =>
            LET N == Len(inserted[n])
                C == Capacity(n)
                pages == tables[n].pages
            IN  /\ Len(pages) = CeilDiv(N, C)
                /\ \A i \in 1 .. Len(pages) :
                     heap[pages[i]].numRecords =
                        IF i < Len(pages) THEN C ELSE N - C * (Len(pages) - 1)

\* C3: every page of every table (of capacity C >= 1) has 0 <= count <=
\* capacity, and its stored records fill exactly the slots [0, count).
C3_CountWithinCapacity ==
    \A n \in Names : \A i \in 1 .. Len(tables[n].pages) :
        LET pg == heap[tables[n].pages[i]] IN
        Capacity(n) >= 1 =>
        /\ 0 <= pg.numRecords /\ pg.numRecords <= pg.cap
        /\ Len(pg.records) = pg.cap
        /\ \A k \in 1 .. pg.cap : (pg.records[k] # NULLREC) <=> (k <= pg.numRecords)

\* C4: whatever a scan does (Next() calls, its destruction), every page of
\* every table (of capacity C >= 1) stays live.
C4_ScanFreesNothing ==
    \A n \in Names : \A i \in 1 .. Len(tables[n].pages) :
        Capacity(n) >= 1 => heap[tables[n].pages[i]].live

\* C5: once Next() has returned end-of-stream, every later Next() on the
\* same scan (of a table of capacity C >= 1) returns end-of-stream.
C5_EndIsFinal ==
    (scan.open /\ Capacity(scan.table) >= 1) =>
        \A i, j \in 1 .. Len(scan.rets) :
            (i < j /\ scan.rets[i] = NULLREC) => scan.rets[j] = NULLREC

\* C6: a createTable step on a name that is bound reports AlreadyExists and
\* leaves every table, every page and the stored payloads as they were.
C6_CreateExistingChangesNothing ==
    [][\A n \in Names, c \in Capacities :
          (Bound(n) /\ createTable(n, c)) =>
              /\ last'.status = "AlreadyExists"
              /\ UNCHANGED <<tables, heap, inserted>>]_vars

C6_Witness ==
    /\ last.op = "createTable" /\ last.status = "AlreadyExists"
    /\ tables[last.name].pages # <<>>
    /\ Len(inserted[last.name]) = MaxInserts

\* C7: an insertInto step on a name that is not bound reports NotFound, binds
\* no table and leaves every table, every page and the stored payloads as
\* they were.
C7_InsertUnboundChangesNothing ==
    [][\A n \in Names, r \in Payloads :
          (~Bound(n) /\ insertInto(n, r)) =>
              /\ last'.status = "NotFound"
              /\ UNCHANGED <<tables, heap, inserted>>]_vars

C7_Witness ==
    /\ last.op = "insertInto" /\ last.status = "NotFound"
    /\ ~Bound(last.name)
    /\ \E m \in Names : Bound(m) /\ inserted[m] # <<>>

\* C8: a scan asked for on a table that holds no inserted record returns
\* end-of-stream from its first Next(), and a driver run on it prints nothing.
C8_EmptyTableEndsAtOnce ==
    /\ (scan.open /\ inserted[scan.req] = <<>> /\ scan.rets # <<>>)
          => scan.rets[1] = NULLREC
    /\ (last.op = "executeSelect" /\ last.status \in {"running", "done"}
          /\ inserted[last.name] = <<>>) => last.out = <<>>

C8_Witness ==
    /\ scan.open /\ Bound(scan.req) /\ inserted[scan.req] = <<>>
    /\ scan.rets = <<NULLREC>>
    /\ \E m \in Names : inserted[m] # <<>>

\* C9: no table with a per-page capacity of zero or less is ever bound.
C9_CapacityPositive ==
    \A n \in Names : Bound(n) => Capacity(n) >= 1

\* C10: when a driver returns, it has forwarded exactly the records stored in
\* the table it scanned, in insertion order (capacity C >= 1, scan driven
\* from its construction).
C10_DriverForwardsAll ==
    /\ (last.op = "executeSelect" /\ last.status = "done"
          /\ Capacity(last.name) >= 1) => last.out = inserted[last.name]
    /\ (last.op = "execute" /\ last.status = "done"
          /\ scan.open /\ ~scan.dirty /\ Capacity(scan.table) >= 1
          /\ Len(scan.rets) = Len(last.out) + 1) => last.out = inserted[scan.table]

\* C11: an executeSelect step on a name that is not bound reports NotFound,
\* constructs no scan, prints no record and leaves the catalog, every table
\* and every page as they were.
C11_SelectUnboundChangesNothing ==
    [][\A n \in Names :
          (~Bound(n) /\ executeSelect(n)) =>
              /\ last'.status = "NotFound" /\ last'.out = <<>>
              /\ ~scan'.open /\ ~crashed'
              /\ UNCHANGED <<tables, heap, inserted, nscans>>]_vars

C11_Witness ==
    /\ last.op = "executeSelect" /\ last.status = "NotFound"
    /\ ~Bound(last.name) /\ ~scan.open
    /\ \E m \in Names : Bound(m) /\ inserted[m] # <<>>

\* Page indexes getPage is asked for: below zero, inside and past the pages.
Indexes == -2 .. MaxPageId + 1

\* C12: getPage(table, index) is the page at position index of the table's
\* page sequence when 0 <= index < pageCount, and no page for every other
\* index.
C12_GetPageInRange ==
    \A n \in Names : \A i \in Indexes :
        LET pages == tables[n].pages IN
        getPage(tables[n], i) =
            IF 0 <= i /\ i < Len(pages) THEN pages[i + 1] ELSE NoPage

\* A scan has fetched page 0 of a table that has it, gone past it and been
\* told there is no page 1.
C12_Witness ==
    /\ scan.open /\ tables[scan.table].pages # <<>>
    /\ scan.cursor.currentPageNum = Len(tables[scan.table].pages)
    /\ scan.cursor.currentPage = NoPage
    /\ \E i \in 1 .. Len(scan.rets) : scan.rets[i] \in Payloads

\* A step of a scan: a Next() call, the scan's destruction, or a step of
\* one of the drivers that run a scan to its end.
ScanStep ==
    \/ ScanNext
    \/ ScanDestroy
    \/ execute
    \/ executeLoop
    \/ \E n \in Names : Bound(n) /\ executeSelect(n)
    \/ executeSelectLoop

\* C13: scanning is read-only: a step of a scan leaves the page sequence of
\* every table (of capacity C >= 1) and the count, the contents and the
\* liveness of each of its pages as they were, so that a later scan of the
\* table finds what the earlier one found.
C13_ScanReadOnly ==
    [][ScanStep =>
          \A n \in Names :
              Capacity(n) >= 1 =>
                  /\ tables'[n] = tables[n]
                  /\ \A i \in 1 .. Len(tables[n].pages) :
                         heap'[tables[n].pages[i]] = heap[tables[n].pages[i]]]_vars

\* Every page a table (of capacity C >= 1) holds is live.
PagesLive ==
    \A n \in Names :
        Capacity(n) >= 1 =>
            \A i \in 1 .. Len(tables[n].pages) : heap[tables[n].pages[i]].live

\* C14: every page is released exactly once, by the destruction of the
\* catalog: when the catalog is destroyed every page of every table is still
\* live (none is released a second time), when a record is inserted the
\* pages of the tables are live (none is written after its release), a scan
\* holds no released page when Next() is called or it is destroyed, and
\* the catalog's destruction leaves no page live.
C14_ReleasedOnce ==
    [][/\ DatabaseDestroy => PagesLive
       /\ (\E n \in Names : Bound(n) /\ insertInto(n, NextPayload)) => PagesLive
       /\ ((ScanNext \/ ScanDestroy) /\ scan.cursor.currentPage # NoPage)
              => heap[scan.cursor.currentPage].live
       /\ (DatabaseDestroy /\ ~crashed')
              => \A p \in PageIds : ~heap'[p].live]_vars

\* C15: Exhausted is absorbing: a Next() call on a scan (of a table of
\* capacity C >= 1) that has signalled end-of-stream and holds no page leaves the page index and the record
\* index of the scan as they were.
C15_ExhaustedAbsorbing ==
    [][(ScanNext /\ ~crashed' /\ Ended(scan.rets)
          /\ Capacity(scan.table) >= 1
          /\ scan.cursor.currentPage = NoPage) =>
          /\ scan'.cursor.currentPageNum = scan.cursor.currentPageNum
          /\ scan'.cursor.currentRecordIndex = scan.cursor.currentRecordIndex]_vars

\* C16: a scan (of a table of capacity C >= 1) that had not signalled
\* end-of-stream when records were inserted into its table has, at the Next()
\* call that first signals end-of-stream, produced every record of the table
\* once and in insertion order.
C16_InsertsDuringScanSeen ==
    [][(ScanNext /\ ~crashed' /\ scan.dirty /\ Capacity(scan.table) >= 1
          /\ ~Ended(scan.rets) /\ Ended(scan'.rets)) =>
          Yielded(scan'.rets) = inserted[scan.table]]_vars

\* The calls it takes on table t to read every slot its page counts, reach
\* end-of-stream and call once more.
Calls(t, h) ==
    IF t.pages = <<>> THEN 2 ELSE h[Last(t.pages)].numRecords + 2

\* What k successive Next() calls of a variant can return, started with
\* cursor c on table t and heap h: the sequences of results, an abort ending
\* the sequence.
RECURSIVE Runs(_, _, _, _, _)
Runs(variant, c, t, h, k) ==
    IF k = 0 THEN {<<>>}
    ELSE UNION {IF o.crash THEN {<<"abort">>}
                ELSE {<<o.ret>> \o r : r \in Runs(variant, o.cursor, t, o.heap, k - 1)}
                  : o \in (IF variant = "iter" THEN NextIter(c, t, h)
                           ELSE NextRec(c, t, h))}

\* C17: on every table as createTable or insertInto has just left it, a
\* scan of the recursive Next() and a scan of the iterative Next() return the
\* same result on the k-th call, for every k up to Calls: the sequences of
\* results the two can produce are the same.
C17_VariantsAgree ==
    \A n \in Names :
        (/\ Bound(n) /\ last.name = n /\ last.status = "ok"
         /\ last.op \in {"createTable", "insertInto"}) =>
            LET t == tables[n]
                k == Calls(t, heap) IN
            Runs("rec", Cursor(t), t, heap, k) = Runs("iter", Cursor(t), t, heap, k)

\* A recursive scan of a table holding a record has returned what its first
\* MaxNext calls return, a payload among them, and the iterative Next() can
\* return the same on that table.
C17_Witness ==
    /\ scan.open /\ scan.variant = "rec" /\ ~scan.dirty
    /\ Len(scan.rets) = MaxNext
    /\ \E i \in 1 .. Len(scan.rets) : scan.rets[i] \in Payloads
    /\ scan.rets \in Runs("iter", Cursor(tables[scan.table]),
                          tables[scan.table], heap, MaxNext)

\* C18: every slot access stays inside the slot array: an insert into a
\* table (of capacity C >= 1) writes the payload to the slot i = the count of
\* the table's last page, with 0 <= i < C, so that no page holds anything
\* past its array; and a Next() call that returns a slot of the scan's page
\* reads a slot i with 0 <= i < C that an insert has filled.
C18_SlotsInRange ==
    [][/\ \A n \in Names :
            (Bound(n) /\ Capacity(n) >= 1 /\ insertInto(n, NextPayload)
               /\ ~crashed') =>
                LET p == Last(tables'[n].pages) IN
                /\ heap'[p].numRecords - 1 >= 0
                /\ heap'[p].numRecords - 1 < heap'[p].cap
                /\ Len(heap'[p].records) <= heap'[p].cap
       /\ (ScanNext /\ ~crashed' /\ Capacity(scan.table) >= 1
             /\ scan.cursor.currentPage # NoPage
             /\ scan'.cursor.currentPage = scan.cursor.currentPage
             /\ scan'.cursor.currentRecordIndex
                  = scan.cursor.currentRecordIndex + 1) =>
              LET pg == heap[scan.cursor.currentPage]
                  i  == scan.cursor.currentRecordIndex IN
              /\ 0 <= i /\ i < pg.cap
              /\ pg.records[i + 1] \in Payloads]_vars
====
